---- MODULE Spec2Model ----
(***************************************************************************)
(* The underwriting workflow of src/graph_pipeline: the StateGraph built   *)
(* by build_graph (graph.py), its state schema and reducers (state.py),    *)
(* the node functions (nodes.py) and the two HTTP handlers that drive it   *)
(* (web_app_agentic.py: process_quote, approve_quote).                     *)
(*                                                                         *)
(* The graph is executed by the LangGraph runtime the source compiles it   *)
(* with (workflow.compile(checkpointer=MemorySaver(), interrupt_before=    *)
(* ["manual_review"])): bulk-synchronous super-steps.  All nodes triggered *)
(* for a step are launched on the same state snapshot, their returned      *)
(* dicts are applied through the channel reducers at the end of the step,  *)
(* the edges of the nodes that ran select the nodes of the next step, and  *)
(* a checkpoint (values + next nodes) is saved per thread_id after each    *)
(* step.  A Python dict is a function whose DOMAIN is its key set.         *)
(***************************************************************************)
EXTENDS Integers, Sequences, FiniteSets, TLC

VARIABLES
    ckpt,      \* MemorySaver: thread_id -> latest checkpoint
    req,       \* the request being served (the handlers never await: one at a time)
    phase,     \* "idle" | "loop" | "batch": position of the runtime inside invoke()
    view,      \* node -> the state it was launched with, for the running step
    pending,   \* nodes of the running step that have not returned yet
    writes,    \* <<node, returned dict>> of the running step, in completion order
    raised,    \* nodes of the running step that raised, in completion order
    ran,       \* nodes invoked since the request began, in launch order (history)
    merged,    \* nodes whose returned dict has been applied since the request began
    resp,      \* the JSON body of the last response
    nreq       \* number of requests received so far

vars == <<ckpt, req, phase, view, pending, writes, raised, ran, merged, resp, nreq>>

\* ---------------------------------------------------------------- bounds
\* Requests served in one behaviour.
MaxRequests == 3

\* thread_id values clients send (uuid4 strings in the source).
Threads == {"t1", "t2"}

\* ------------------------------------------------------------ dict helpers
EmptyDict == [k \in {} |-> 0]

\* dict.get(k, default)
Get(d, k, default) == IF k \in DOMAIN d THEN d[k] ELSE default

\* {k: v}
Entry(k, v) == [x \in {k} |-> v]

\* A dict display with the items of a and of b: {..a, ..b}
Dict(a, b) == a @@ b

\* A string is the sequence of its parts: "" is <<>>.
EmptyString == <<>>

RECURSIVE SeqToSet(_)
SeqToSet(s) == IF s = <<>> THEN {} ELSE {Head(s)} \cup SeqToSet(Tail(s))


\* ------------------------------------------------------------------ inputs
\* The requests' email_content values.  What the code reads of an email is
\* which marker words it contains (node_security_scan, node_risk,
\* node_calculate) and what the extraction chain returns for it
\* (node_extract): ok = FALSE when the primary and the fallback chain both
\* raise.  rev is the extracted revenue in millions of dollars, chars and
\* dataChars the lengths of the email and of str(data_dict).
Mail == [
  tech         |-> [ssn |-> FALSE, cc |-> FALSE, hazard |-> "none", ok |-> TRUE,
                    client |-> "StartupCo", industry |-> "Tech", rev |-> 2,
                    chars |-> 120, dataChars |-> 80],
  construction |-> [ssn |-> FALSE, cc |-> FALSE, hazard |-> "none", ok |-> TRUE,
                    client |-> "ABC Construction Corp", industry |-> "Construction",
                    rev |-> 15, chars |-> 800, dataChars |-> 120],
  nuclear      |-> [ssn |-> FALSE, cc |-> FALSE, hazard |-> "nuclear", ok |-> TRUE,
                    client |-> "Atom Kitchen", industry |-> "Other", rev |-> 6,
                    chars |-> 200, dataChars |-> 80],
  pii          |-> [ssn |-> TRUE, cc |-> TRUE, hazard |-> "none", ok |-> TRUE,
                    client |-> "Shop", industry |-> "Retail", rev |-> 1,
                    chars |-> 160, dataChars |-> 80],
  pii_builder  |-> [ssn |-> TRUE, cc |-> FALSE, hazard |-> "none", ok |-> TRUE,
                    client |-> "MegaBuilder Corp", industry |-> "Construction",
                    rev |-> 20, chars |-> 240, dataChars |-> 120],
  ambiguous    |-> [ssn |-> FALSE, cc |-> FALSE, hazard |-> "none", ok |-> FALSE,
                    client |-> "", industry |-> "", rev |-> 0,
                    chars |-> 80, dataChars |-> 0]
]

Emails == DOMAIN Mail

\* The substring tests of the source ("Construction" in client_name, ...).
NameHas(name, word) ==
    \/ word = "Construction" /\ name = "ABC Construction Corp"
    \/ word = "Kitchen" /\ name = "Atom Kitchen"

\* ------------------------------------------------------------ state schema
START == "__start__"
END == "__end__"

\* Keys declared by AgentState.
StateKeys == {"input_email", "quote_id", "extracted_data", "industry_classification",
              "rates", "risk_assessment", "calculation", "quote_letter", "error",
              "is_referral", "is_approved", "cost_tracking", "execution_time",
              "security_flags", "pillars"}

\* Annotated[Dict[str, float], merge_dicts]
MergeKeys == {"cost_tracking", "execution_time"}

\* Annotated[List[str], add]
AppendKeys == {"security_flags"}

\* Keys without a reducer: a plain last-value channel.
OverwriteKeys == StateKeys \ (MergeKeys \cup AppendKeys)

\* Mutant: the key is overwritten instead of merged.
merge_dicts_Replace(a, b) == b

\* Mutant: a wins on key collision.
merge_dicts_FirstWins(a, b) ==
    [k \in DOMAIN a \cup DOMAIN b |-> IF k \in DOMAIN a THEN a[k] ELSE b[k]]

\* Reducer to merge two dictionaries: {**a, **b}
merge_dicts(a, b) ==
    [k \in DOMAIN a \cup DOMAIN b |-> IF k \in DOMAIN b THEN b[k] ELSE a[k]]

\* operator.add on lists
add(a, b) == a \o b

\* The values of a thread that has no checkpoint: a reducer channel starts
\* at the empty value of its type, a plain channel is absent.
InitialValues ==
    [k \in MergeKeys \cup AppendKeys |-> IF k \in AppendKeys THEN <<>> ELSE EmptyDict]


\* ------------------------------------------------------------------- nodes
\* A node returns a dict (ok) or raises (not ok).  time.time() - start_time
\* is kept as the token "elapsed"; costs are in units of 1e-7 dollars.
Returns(d) == [ok |-> TRUE, out |-> d, err |-> ""]

\* state[key] on a missing key: KeyError, whose text is the quoted key.
Raises(key) == [ok |-> FALSE, out |-> EmptyDict, err |-> key]

\* (chars / 4) tokens, (tokens / 1000) * 0.0001 dollars
track_cost(chars) == chars \div 4

Telemetry(key, cost) ==
    [execution_time |-> Entry(key, "elapsed"), cost_tracking |-> Entry(key, cost)]

node_security_scan(state) ==
    IF "input_email" \notin DOMAIN state THEN Raises("'input_email'")
    ELSE LET m == Mail[state["input_email"]]
             flags == (IF m.ssn THEN <<"POTENTIAL_PII_SSN">> ELSE <<>>)
                      \o (IF m.cc THEN <<"POTENTIAL_PII_CC">> ELSE <<>>)
         IN  Returns(Dict([security_flags |-> flags],
                                 Telemetry("security", track_cost(m.chars))))

node_extract(state) ==
    IF "input_email" \notin DOMAIN state \/ ~Mail[state["input_email"]].ok
    THEN Returns([error |-> "extraction failed"])
    ELSE LET m == Mail[state["input_email"]]
             data_dict == [client_name |-> m.client, industry |-> m.industry,
                           revenue |-> m.rev]
         IN  Returns(Dict([extracted_data |-> data_dict],
                 Telemetry("extraction",
                           track_cost(m.chars) + track_cost(m.dataChars))))

node_industry(state) ==
    IF "extracted_data" \notin DOMAIN state THEN Raises("'extracted_data'")
    ELSE Returns(Dict(
             [industry_classification |->
                  [name |-> state["extracted_data"].industry, code |-> "NAICS-123"]],
             Telemetry("industry", 1000)))

node_rates(state) ==
    Returns(Dict([rates |-> <<[type |-> "GL", rate |-> 5]>>],
                        Telemetry("rates", 2000)))

\* The if/elif chain of node_risk.
RiskLevel(hazard, industry, rev) ==
    IF hazard \in {"structural failures", "nuclear", "bankruptcy"} THEN "HIGH"
    ELSE IF industry = "Construction" THEN "HIGH"
    ELSE IF industry = "Restaurant" THEN "MEDIUM"
    ELSE IF rev > 15 THEN "HIGH"
    ELSE IF rev > 5 THEN "MEDIUM"
    ELSE "LOW"

node_risk(state) ==
    IF "extracted_data" \notin DOMAIN state THEN Raises("'extracted_data'")
    ELSE LET data == state["extracted_data"]
             hazard == IF "input_email" \in DOMAIN state
                       THEN Mail[state["input_email"]].hazard ELSE "none"
             risk_level == RiskLevel(hazard, data.industry, data.revenue)
         IN  Returns(Dict(
                 [risk_assessment |-> [level |-> risk_level,
                                       revenue_factor |-> data.revenue],
                  is_referral |-> (risk_level = "HIGH")],
                 Telemetry("risk", 1000)))

\* final_premium = gl_base + loss_mod + auto_prem, in dollars.
Premium(hazard, client, industry, rev) ==
    IF industry = "Construction" \/ NameHas(client, "Construction")
    THEN 8500 * rev
         + (IF hazard \in {"nuclear", "structural failures"}
            THEN 5 * 8500 * rev ELSE 1275 * rev)
         + 25 * 750
    ELSE IF industry = "Tech" THEN 500 + 3500 + 2000 * rev
    ELSE IF industry = "Restaurant" \/ NameHas(client, "Kitchen")
    THEN 5500 * rev + 7000 + 2400 * rev
    ELSE IF industry = "Retail" THEN 650 + 2625 + 4250
    ELSE 5000 * rev

node_calculate(state) ==
    IF "extracted_data" \notin DOMAIN state THEN Raises("'extracted_data'")
    ELSE LET data == state["extracted_data"]
             hazard == IF "input_email" \in DOMAIN state
                       THEN Mail[state["input_email"]].hazard ELSE "none"
             final_premium == Premium(hazard, data.client_name, data.industry,
                                      data.revenue)
         IN  Returns(Dict(
                 [calculation |->
                      [final_premium |-> final_premium,
                       authority |-> IF final_premium < 200000
                                     THEN "APPROVED" ELSE "REQUIRES_REVIEW"]],
                 Telemetry("calculation", 0)))

node_quote(state) ==
    IF "calculation" \notin DOMAIN state THEN Raises("'calculation'")
    ELSE IF "extracted_data" \notin DOMAIN state THEN Raises("'extracted_data'")
    ELSE IF "risk_assessment" \notin DOMAIN state THEN Raises("'risk_assessment'")
    ELSE Returns(Dict(
             [quote_letter |->
                  <<"Dear", state["extracted_data"].client_name,
                    "Industry Classification:", state["extracted_data"].industry,
                    "Annual Premium:", state["calculation"].final_premium,
                    "Risk Assessment:", state["risk_assessment"].level>>],
             Telemetry("quote_gen", 1000)))

\* The key under which each node records its cost and time.
TelemetryKey ==
    [security |-> "security", extract |-> "extraction", industry |-> "industry",
     rates |-> "rates", risk |-> "risk", calculate |-> "calculation",
     quote |-> "quote_gen"]

\* lambda state: {"stop_reason": "HIGH_RISK_REQUIRES_APPROVAL"}
node_manual_review(state) ==
    Returns([stop_reason |-> "HIGH_RISK_REQUIRES_APPROVAL"])


\* ----------------------------------------------------------------- diamond
\* The diamond of the specification's scenarios, declared over AgentState:
\* START -> A -> {B, C} -> D, and D routes to E when the risk level is HIGH,
\* to END otherwise.  A sets the level the run was started with, B and C
\* write their own entries of the merge_dicts keys, D records the entries of
\* cost_tracking it was given, E writes the letter.
RiskLevels == {"LOW", "MEDIUM", "HIGH"}

DiamondNodes == {"A", "B", "C", "D", "E"}

DiamondEdges ==
    {<<START, "A">>, <<"A", "B">>, <<"A", "C">>, <<"B", "D">>, <<"C", "D">>,
     <<"E", END>>}

DiamondPatch(n, state) ==
    CASE n = "A" -> [risk_assessment |-> [level |-> state["input_email"],
                                          revenue_factor |-> 1]]
      [] n = "B" -> Telemetry("B", 1)
      [] n = "C" -> Telemetry("C", 2)
      [] n = "D" -> [calculation |-> [observed |-> state["cost_tracking"]]]
      [] n = "E" -> [quote_letter |-> <<"E">>]

route_after_D(state) ==
    IF state["risk_assessment"].level = "HIGH" THEN "E" ELSE "END"

DiamondTable == [E |-> "E", END |-> END]

\* The diamond declared with a routing table that lacks the label E.
UnmappedTable == [END |-> END]

DiamondGraphs == {"diamond", "unmapped"}

\* --------------------------------------------------------------- two pauses
\* A chain with two nodes to pause before: START -> A -> M1 -> B -> M2 -> END,
\* compiled with interrupt_before = [M1, M2].  Every node records its
\* telemetry entry.
TwoPauseNodes == {"A", "M1", "B", "M2"}

TwoPauseEdges ==
    {<<START, "A">>, <<"A", "M1">>, <<"M1", "B">>, <<"B", "M2">>, <<"M2", END>>}

TwoPauseInterrupts == {"M1", "M2"}

\* ------------------------------------------------------------------- fork
\* A fork with one branch to pause before: START -> A -> {M, X}, both to
\* END, compiled with interrupt_before = [M].
ForkNodes == {"A", "M", "X"}

ForkEdges == {<<START, "A">>, <<"A", "M">>, <<"A", "X">>, <<"M", END>>, <<"X", END>>}

ForkInterrupts == {"M"}

\* ------------------------------------------------------------------- graph
\* build_graph: the nodes registered with add_node.
GraphNodes(g) ==
    IF g = "underwriting"
    THEN {"security", "extract", "industry", "rates", "risk", "calculate", "quote",
          "manual_review"}
    ELSE IF g \in DiamondGraphs THEN DiamondNodes
    ELSE IF g = "twopause" THEN TwoPauseNodes
    ELSE IF g = "fork" THEN ForkNodes
    ELSE {}

NodeFn(g, n, state) ==
    CASE g \in DiamondGraphs -> Returns(DiamondPatch(n, state))
      [] g = "twopause"      -> Returns(Telemetry(n, 1))
      [] g = "fork"          -> Returns(Telemetry(n, 1))
      [] n = "security"      -> node_security_scan(state)
      [] n = "extract"       -> node_extract(state)
      [] n = "industry"      -> node_industry(state)
      [] n = "rates"         -> node_rates(state)
      [] n = "risk"          -> node_risk(state)
      [] n = "calculate"     -> node_calculate(state)
      [] n = "quote"         -> node_quote(state)
      [] n = "manual_review" -> node_manual_review(state)

\* Mutant: calculate is also wired directly to extract, beside the fan-out.
GraphEdges_Early(g) ==
    {<<START, "security">>, <<"security", "extract">>, <<"extract", "calculate">>,
     <<"extract", "industry">>, <<"extract", "rates">>, <<"extract", "risk">>,
     <<"industry", "calculate">>, <<"rates", "calculate">>,
     <<"quote", END>>, <<"manual_review", "quote">>}

\* build_graph: the add_edge calls.
GraphEdges(g) ==
    IF g = "underwriting"
    THEN {<<START, "security">>, <<"security", "extract">>,
          <<"extract", "industry">>, <<"extract", "rates">>, <<"extract", "risk">>,
          <<"industry", "calculate">>, <<"rates", "calculate">>,
          <<"quote", END>>, <<"manual_review", "quote">>}
    ELSE IF g \in DiamondGraphs THEN DiamondEdges
    ELSE IF g = "twopause" THEN TwoPauseEdges
    ELSE IF g = "fork" THEN ForkEdges
    ELSE {}

\* Security flags present => "END", else "calculate".
\* Mutant: the END sentinel is returned in place of the label "END".
route_after_risk_Sentinel(state) ==
    IF Get(state, "security_flags", <<>>) # <<>> THEN END ELSE "calculate"

route_after_risk(state) ==
    IF Get(state, "security_flags", <<>>) # <<>> THEN "END" ELSE "calculate"

\* Mutant: the HIGH-risk branch is missing.
route_after_calculation_NoReview(state) == "quote"

\* Approved => "quote"; HIGH risk => "manual_review"; else "quote".
route_after_calculation(state) ==
    IF Get(state, "is_approved", FALSE) = TRUE THEN "quote"
    ELSE IF "risk_assessment" \in DOMAIN state
            /\ state["risk_assessment"].level = "HIGH" THEN "manual_review"
    ELSE "quote"

\* build_graph: the nodes given add_conditional_edges.
BranchNodes(g) ==
    IF g = "underwriting" THEN {"risk", "calculate"}
    ELSE IF g \in DiamondGraphs THEN {"D"}
    ELSE {}

\* The label the node's routing function returns.
Route(g, n, state) ==
    CASE g \in DiamondGraphs -> route_after_D(state)
      [] n = "risk"      -> route_after_risk(state)
      [] n = "calculate" -> route_after_calculation(state)

\* The routing table given with the routing function.
RoutingTable(g, n) ==
    CASE g = "diamond"   -> DiamondTable
      [] g = "unmapped"  -> UnmappedTable
      [] n = "risk"      -> [calculate |-> "calculate", END |-> END]
      [] n = "calculate" -> [quote |-> "quote", manual_review |-> "manual_review"]

\* Mutant: compiled without interrupt_before.
InterruptBefore_None(g) == {}

\* compile(..., interrupt_before=["manual_review"])
InterruptBefore(g) ==
    IF g = "underwriting" THEN {"manual_review"}
    ELSE IF g = "twopause" THEN TwoPauseInterrupts
    ELSE IF g = "fork" THEN ForkInterrupts
    ELSE {}

\* ---------------------------------------------------------------- runtime
\* One returned dict applied to the channel values: the key's reducer where
\* one is declared, the new value otherwise; undeclared keys are not
\* channels and are dropped.
ApplyPatch(values, patch) ==
    [k \in DOMAIN values \cup (DOMAIN patch \cap StateKeys) |->
        IF k \notin DOMAIN patch THEN values[k]
        ELSE IF k \in AppendKeys THEN add(Get(values, k, <<>>), patch[k])
        ELSE IF k \in MergeKeys THEN merge_dicts(Get(values, k, EmptyDict), patch[k])
        ELSE patch[k]]

\* Mutant: only the write of the node that returned last is applied.
apply_writes_LastOnly(values, ws) ==
    IF ws = <<>> THEN values ELSE ApplyPatch(values, ws[Len(ws)][2])

\* The writes of a step applied one after the other.
RECURSIVE apply_writes(_, _)
apply_writes(values, ws) ==
    IF ws = <<>> THEN values
    ELSE apply_writes(ApplyPatch(values, Head(ws)[2]), Tail(ws))

\* Mutant: when two writes meet on a plain channel the later one wins.
Conflict_LastWins(ws) == FALSE

\* A plain channel can receive only one value per step (InvalidUpdateError).
Conflict(ws) ==
    \E i, j \in 1..Len(ws) :
        i < j /\ DOMAIN ws[i][2] \cap DOMAIN ws[j][2] \cap OverwriteKeys # {}

\* Mutant: a conditional edge triggers every target of its routing table.
Targets_EveryBranch(g, n, state, patch) ==
    ({e[2] : e \in {e \in GraphEdges(g) : e[1] = n}}
     \cup (IF n \in BranchNodes(g)
           THEN {RoutingTable(g, n)[l] : l \in DOMAIN RoutingTable(g, n)}
           ELSE {}))
    \ {END}

\* The nodes node n triggers once it has returned patch: its add_edge targets
\* and the target its routing function selects.  The routing function runs
\* with the node's own writes applied to the state the node was given.
Targets(g, n, state, patch) ==
    ({e[2] : e \in {e \in GraphEdges(g) : e[1] = n}}
     \cup (IF n \in BranchNodes(g)
           THEN {RoutingTable(g, n)[Route(g, n, ApplyPatch(state, patch))]}
           ELSE {}))
    \ {END}

\* The routing function of node n returns a label its routing table lacks:
\* the lookup raises KeyError(label) in the node's task.
Unmapped(g, n, state, patch) ==
    /\ n \in BranchNodes(g)
    /\ Route(g, n, ApplyPatch(state, patch)) \notin DOMAIN RoutingTable(g, n)

\* Mutant: a target that a conditional edge of the step did not select is
\* not launched, whatever other edges of the step lead to it.
NextNodes_Blocked(g, state, ws) ==
    UNION {Targets(g, ws[i][1], state, ws[i][2]) : i \in 1..Len(ws)}
    \ UNION {{RoutingTable(g, ws[i][1])[l] : l \in DOMAIN RoutingTable(g, ws[i][1])}
               \ Targets(g, ws[i][1], state, ws[i][2]) :
             i \in {j \in 1..Len(ws) : ws[j][1] \in BranchNodes(g)}}

\* The nodes of the next step, from the writes of this one.
NextNodes(g, state, ws) ==
    UNION {Targets(g, ws[i][1], state, ws[i][2]) : i \in 1..Len(ws)}

NoCheckpoint ==
    [exists |-> FALSE, values |-> InitialValues, next |-> {}, last |-> {START}]

\* kind, thread and graph of the request being served; first: the run is a
\* resumed one (invoke(None)) that has not launched a step yet.  fresh (the
\* thread had no checkpoint when the request arrived) and frontier (the
\* next nodes of the checkpoint the request found) are history.
NoRequest == [kind |-> "none", thread |-> "", graph |-> "", first |-> FALSE,
              fresh |-> FALSE, frontier |-> {}]

NoResponse == [status |-> "NONE", thread |-> "", quote_letter |-> EmptyString, error |-> "",
               next |-> {}, values |-> EmptyDict]

Init ==
    /\ ckpt = [t \in Threads |-> NoCheckpoint]
    /\ req = NoRequest
    /\ phase = "idle"
    /\ view = EmptyDict
    /\ pending = {}
    /\ writes = <<>>
    /\ raised = <<>>
    /\ ran = <<>>
    /\ merged = {}
    /\ resp = NoResponse
    /\ nreq = 0


\* ---------------------------------------------------------------- handlers
\* The body process_quote builds from what invoke returned and from
\* get_state(config).next.
ProcessResponse(t, final_state, next) ==
    LET flagged == Get(final_state, "security_flags", <<>>) # <<>>
        high == "risk_assessment" \in DOMAIN final_state
                /\ final_state["risk_assessment"].level = "HIGH"
        status == IF "manual_review" \in next \/ high THEN "WAITING_APPROVAL"
                  ELSE IF flagged THEN "TERMINATED"
                  ELSE "COMPLETED"
    IN  [status |-> status, thread |-> t,
         quote_letter |-> Get(final_state, "quote_letter", EmptyString), error |-> "",
         next |-> next, values |-> final_state]

\* The body approve_quote builds from what invoke returned.
ApproveResponse(t, final_state, next) ==
    [status |-> "APPROVED", thread |-> t,
     quote_letter |-> Get(final_state, "quote_letter", EmptyString), error |-> "",
     next |-> next, values |-> final_state]

\* except Exception: JSONResponse({"error": str(e)}, status_code=500)
ErrorResponse(t, e) ==
    [status |-> "ERROR", thread |-> t, quote_letter |-> EmptyString, error |-> e,
     next |-> {}, values |-> EmptyDict]

\* What invoke returned, for a caller that only runs the graph.
RunResponse(t, final_state, next) ==
    [status |-> IF next = {} THEN "COMPLETED" ELSE "PAUSED", thread |-> t,
     quote_letter |-> Get(final_state, "quote_letter", EmptyString), error |-> "",
     next |-> next, values |-> final_state]

Response(r, final_state, next) ==
    IF r.kind = "process" THEN ProcessResponse(r.thread, final_state, next)
    ELSE IF r.kind = "approve" THEN ApproveResponse(r.thread, final_state, next)
    ELSE RunResponse(r.thread, final_state, next)

\* graph_app.invoke(initial_state, config): the input is written to the
\* thread's channels as the writes of START, which triggers START's edges.
InputCheckpoint(g, old, input) ==
    [exists |-> TRUE,
     values |-> ApplyPatch(old.values, input),
     next   |-> Targets(g, START, old.values, input),
     last   |-> {START}]

\* Mutant: after the update only the nodes of interrupt_before stay next.
UpdatedCheckpoint_OnlyPaused(g, old, as_node, values) ==
    [exists |-> TRUE,
     values |-> ApplyPatch(old.values, values),
     next   |-> IF Targets(g, as_node, old.values, values) \cap InterruptBefore(g) # {}
                THEN Targets(g, as_node, old.values, values) \cap InterruptBefore(g)
                ELSE Targets(g, as_node, old.values, values),
     last   |-> {as_node}]

\* graph_app.update_state(config, values): the values are written as the
\* writes of as_node, the node that updated the thread last, and as_node's
\* edges and routing function are run again on the updated state.
UpdatedCheckpoint(g, old, as_node, values) ==
    [exists |-> TRUE,
     values |-> ApplyPatch(old.values, values),
     next   |-> Targets(g, as_node, old.values, values),
     last   |-> {as_node}]

StartRequest(r) ==
    /\ req' = r
    /\ phase' = "loop"
    /\ view' = EmptyDict
    /\ pending' = {}
    /\ writes' = <<>>
    /\ raised' = <<>>
    /\ ran' = <<>>
    /\ merged' = {}
    /\ resp' = NoResponse
    /\ nreq' = nreq + 1

\* POST /api/process-agentic-quote, up to the first step of invoke.
process_quote(t, e) ==
    /\ phase = "idle"
    /\ nreq < MaxRequests
    /\ ckpt' = [ckpt EXCEPT ![t] =
                   InputCheckpoint("underwriting", ckpt[t],
                                   [input_email |-> e, quote_id |-> t])]
    /\ StartRequest([kind |-> "process", thread |-> t, graph |-> "underwriting",
                     first |-> FALSE, fresh |-> ~ckpt[t].exists,
                     frontier |-> ckpt[t].next])

\* Mutant: the handler starts while another request is being served.
approve_quote_Unqueued(t) ==
    /\ nreq < MaxRequests
    /\ \E as_node \in ckpt[t].last :
          ckpt' = [ckpt EXCEPT ![t] =
                      UpdatedCheckpoint("underwriting", ckpt[t], as_node,
                                        [is_approved |-> TRUE])]
    /\ StartRequest([kind |-> "approve", thread |-> t, graph |-> "underwriting",
                     first |-> TRUE, fresh |-> ~ckpt[t].exists,
                     frontier |-> ckpt[t].next])

\* Mutant: the approval is written to every thread the saver holds.
approve_quote_EveryThread(t) ==
    /\ phase = "idle"
    /\ nreq < MaxRequests
    /\ \E as_node \in ckpt[t].last :
          ckpt' = [u \in Threads |->
                      IF u = t \/ ckpt[u].exists
                      THEN UpdatedCheckpoint("underwriting", ckpt[u], as_node,
                                             [is_approved |-> TRUE])
                      ELSE ckpt[u]]
    /\ StartRequest([kind |-> "approve", thread |-> t, graph |-> "underwriting",
                     first |-> TRUE, fresh |-> ~ckpt[t].exists,
                     frontier |-> ckpt[t].next])

\* POST /api/approve-quote: update_state, then invoke(None, config) up to
\* its first step.
approve_quote(t) ==
    /\ phase = "idle"
    /\ nreq < MaxRequests
    /\ \E as_node \in ckpt[t].last :
          ckpt' = [ckpt EXCEPT ![t] =
                      UpdatedCheckpoint("underwriting", ckpt[t], as_node,
                                        [is_approved |-> TRUE])]
    /\ StartRequest([kind |-> "approve", thread |-> t, graph |-> "underwriting",
                     first |-> TRUE, fresh |-> ~ckpt[t].exists,
                     frontier |-> ckpt[t].next])

\* Mutant: the first step of a resumed run is stopped like any other.
Interrupting_EveryStep == ckpt[req.thread].next \cap InterruptBefore(req.graph)

\* The nodes that stop the run before they are launched.  The first step of
\* a resumed run (invoke(None)) is not interrupted again.
Interrupting == IF req.first THEN {} ELSE ckpt[req.thread].next \cap InterruptBefore(req.graph)

\* A step begins: every triggered node is launched on the same values.
LaunchBatch ==
    /\ phase = "loop"
    /\ ckpt[req.thread].next # {}
    /\ Interrupting = {}
    /\ phase' = "batch"
    /\ pending' = ckpt[req.thread].next
    /\ view' = [n \in ckpt[req.thread].next |-> ckpt[req.thread].values]
    /\ writes' = <<>>
    /\ raised' = <<>>
    /\ ran' = Append(ran, ckpt[req.thread].next)
    /\ req' = [req EXCEPT !.first = FALSE]
    /\ UNCHANGED <<ckpt, merged, resp, nreq>>

\* Mutant: a running node reads the state with the writes of the nodes of
\* its step that have already returned.
Observed_Live(n) == apply_writes(view[n], writes)

\* The state a running node reads: the one it was launched with.
Observed(n) == view[n]

\* Mutant: the dict a node returns is saved to the thread as soon as the
\* node returns.
NodeReturn_Saves(n) ==
    /\ phase = "batch"
    /\ n \in pending
    /\ raised = <<>>
    /\ LET r == NodeFn(req.graph, n, Observed(n))
       IN  /\ writes' = IF r.ok THEN Append(writes, <<n, r.out, Observed(n)>>)
                         ELSE writes
           /\ raised' = IF r.ok THEN raised ELSE Append(raised, <<n, r.err>>)
           /\ ckpt' = IF r.ok
                      THEN [ckpt EXCEPT ![req.thread].values = ApplyPatch(@, r.out)]
                      ELSE ckpt
    /\ pending' = pending \ {n}
    /\ UNCHANGED <<req, phase, view, ran, merged, resp, nreq>>

\* A running node returns its dict, or raises.  A write is <<node, returned
\* dict, state the node read>>.
NodeReturn(n) ==
    /\ phase = "batch"
    /\ n \in pending
    /\ raised = <<>>
    /\ LET r == NodeFn(req.graph, n, Observed(n))
           bad == r.ok /\ Unmapped(req.graph, n, Observed(n), r.out)
       IN  /\ writes' = IF r.ok /\ ~bad THEN Append(writes, <<n, r.out, Observed(n)>>)
                         ELSE writes
           /\ raised' = IF r.ok /\ ~bad THEN raised
                         ELSE IF bad
                         THEN Append(raised,
                                     <<n, Route(req.graph, n, ApplyPatch(Observed(n), r.out))>>)
                         ELSE Append(raised, <<n, r.err>>)
    /\ pending' = pending \ {n}
    /\ UNCHANGED <<ckpt, req, phase, view, ran, merged, resp, nreq>>

\* Mutant: the nodes of the step stay next beside the nodes they trigger.
ApplyWrites_KeepsNext ==
    /\ phase = "batch"
    /\ pending = {}
    /\ raised = <<>>
    /\ ~Conflict(writes)
    /\ LET old == ckpt[req.thread]
       IN  ckpt' = [ckpt EXCEPT ![req.thread] =
                       [exists |-> TRUE,
                        values |-> apply_writes(old.values, writes),
                        next   |-> old.next \cup NextNodes(req.graph, old.values, writes),
                        last   |-> {writes[i][1] : i \in 1..Len(writes)}]]
    /\ merged' = merged \cup {writes[i][1] : i \in 1..Len(writes)}
    /\ phase' = "loop"
    /\ UNCHANGED <<req, view, pending, writes, raised, ran, resp, nreq>>

\* The step ends: the writes are applied, the next nodes selected and the
\* checkpoint saved.
ApplyWrites ==
    /\ phase = "batch"
    /\ pending = {}
    /\ raised = <<>>
    /\ ~Conflict(writes)
    /\ LET old == ckpt[req.thread]
       IN  ckpt' = [ckpt EXCEPT ![req.thread] =
                       [exists |-> TRUE,
                        values |-> apply_writes(old.values, writes),
                        next   |-> NextNodes(req.graph, old.values, writes),
                        last   |-> {writes[i][1] : i \in 1..Len(writes)}]]
    /\ merged' = merged \cup {writes[i][1] : i \in 1..Len(writes)}
    /\ phase' = "loop"
    /\ UNCHANGED <<req, view, pending, writes, raised, ran, resp, nreq>>

\* Mutant: the writes of the nodes that returned are applied before the
\* error is answered.
Abort_KeepWrites ==
    /\ phase = "batch"
    /\ raised # <<>>
    /\ resp' = ErrorResponse(req.thread, raised[1][2])
    /\ phase' = "idle"
    /\ ckpt' = [ckpt EXCEPT ![req.thread].values = apply_writes(@, writes)]
    /\ UNCHANGED <<req, view, pending, writes, raised, ran, merged, nreq>>

\* Mutant: a step that raised is dropped from the thread: its nodes are no
\* longer next.
Abort_DropsStep ==
    /\ phase = "batch"
    /\ raised # <<>> \/ (pending = {} /\ Conflict(writes))
    /\ resp' = ErrorResponse(req.thread,
                             IF raised # <<>> THEN raised[1][2]
                             ELSE "Can receive only one value per step")
    /\ phase' = "idle"
    /\ ckpt' = [ckpt EXCEPT ![req.thread].next = {}]
    /\ UNCHANGED <<req, view, pending, writes, raised, ran, merged, nreq>>

\* A node raised (or the writes conflict): invoke raises, nothing of the
\* step is applied, the handler answers 500.
Abort ==
    /\ phase = "batch"
    /\ raised # <<>> \/ (pending = {} /\ Conflict(writes))
    /\ resp' = ErrorResponse(req.thread,
                             IF raised # <<>> THEN raised[1][2]
                             ELSE "Can receive only one value per step")
    /\ phase' = "idle"
    /\ UNCHANGED <<ckpt, req, view, pending, writes, raised, ran, merged, nreq>>

\* Mutant: stopping before a node of interrupt_before forgets the nodes
\* that were next.
Interrupt_ForgetsNext ==
    /\ phase = "loop"
    /\ Interrupting # {}
    /\ resp' = Response(req, ckpt[req.thread].values, ckpt[req.thread].next)
    /\ phase' = "idle"
    /\ ckpt' = [ckpt EXCEPT ![req.thread].next = {}]
    /\ UNCHANGED <<req, view, pending, writes, raised, ran, merged, nreq>>

\* invoke returns the current values because a node of interrupt_before is
\* next; the handler answers.
Interrupt ==
    /\ phase = "loop"
    /\ Interrupting # {}
    /\ resp' = Response(req, ckpt[req.thread].values, ckpt[req.thread].next)
    /\ phase' = "idle"
    /\ UNCHANGED <<ckpt, req, view, pending, writes, raised, ran, merged, nreq>>

\* Mutant: invoke returns only after it has launched a step.
Finish_AfterAStep ==
    /\ phase = "loop"
    /\ ckpt[req.thread].next = {}
    /\ ran # <<>>
    /\ resp' = Response(req, ckpt[req.thread].values, ckpt[req.thread].next)
    /\ phase' = "idle"
    /\ UNCHANGED <<ckpt, req, view, pending, writes, raised, ran, merged, nreq>>

\* invoke returns the final values because no node is triggered; the
\* handler answers.
Finish ==
    /\ phase = "loop"
    /\ ckpt[req.thread].next = {}
    /\ resp' = Response(req, ckpt[req.thread].values, ckpt[req.thread].next)
    /\ phase' = "idle"
    /\ UNCHANGED <<ckpt, req, view, pending, writes, raised, ran, merged, nreq>>

Next ==
    \/ \E t \in Threads, e \in Emails : process_quote(t, e)
    \/ \E t \in Threads : approve_quote(t)
    \/ LaunchBatch
    \/ \E n \in pending : NodeReturn(n)
    \/ ApplyWrites
    \/ Abort
    \/ Interrupt
    \/ Finish

Spec == Init /\ [][Next]_vars

\* A handler runs invoke to its end: the steps of the request being served
\* are taken as long as one is possible.
Serve ==
    \/ LaunchBatch
    \/ \E n \in pending : NodeReturn(n)
    \/ ApplyWrites
    \/ Abort
    \/ Interrupt
    \/ Finish

LiveSpec == Init /\ [][Next]_vars /\ WF_vars(Serve)

\* ------------------------------------------------------ one step's writes
\* The end of a step seen on its own: the returned dicts of up to MaxBatch
\* nodes, in every order of return, applied to a thread's values.
MaxBatch == 3

\* Returned dicts that meet on the keys of AgentState: each node's own key
\* of cost_tracking, the same key of cost_tracking with two values, two
\* lists of security_flags, and plain keys written by two nodes.
Patches ==
    [industry  |-> Dict([pillars |-> "Construction"], Telemetry("industry", 1000)),
     rates     |-> [rates |-> "RATE_TABLE"],
     risk      |-> Dict([risk_assessment |-> [level |-> "LOW", revenue_factor |-> 1]],
                        Telemetry("risk", 2000)),
     retry     |-> [cost_tracking |-> Entry("industry", 7)],
     ssn       |-> [security_flags |-> <<"POTENTIAL_PII_SSN">>],
     cc        |-> [security_flags |-> <<"POTENTIAL_PII_CC">>],
     rates2    |-> [rates |-> "RATE_TABLE_2"],
     review    |-> [risk_assessment |-> [level |-> "HIGH", revenue_factor |-> 10]]]

\* The values of the thread before the step.
Bases ==
    {InitialValues,
     ApplyPatch(InitialValues,
                Dict([input_email |-> "tech", quote_id |-> "t1",
                      security_flags |-> <<"POTENTIAL_PII_SSN">>],
                     Telemetry("security", 30)))}

\* The orders in which up to MaxBatch distinct nodes return.
Batches ==
    {b \in UNION {[1..n -> DOMAIN Patches] : n \in 1..MaxBatch} :
        \A i, j \in 1..Len(b) : i # j => b[i] # b[j]}

MergeInit ==
    \E base \in Bases, b \in Batches :
        /\ ckpt = [t \in Threads |->
                     IF t = "t1"
                     THEN [exists |-> TRUE, values |-> base,
                           next |-> {b[i] : i \in 1..Len(b)}, last |-> {START}]
                     ELSE NoCheckpoint]
        /\ req = [NoRequest EXCEPT !.kind = "step", !.thread = "t1", !.graph = "step"]
        /\ phase = "batch"
        /\ view = [n \in {b[i] : i \in 1..Len(b)} |-> base]
        /\ pending = {}
        /\ writes = [i \in 1..Len(b) |-> <<b[i], Patches[b[i]], base>>]
        /\ raised = <<>>
        /\ ran = <<{b[i] : i \in 1..Len(b)}>>
        /\ merged = {}
        /\ resp = NoResponse
        /\ nreq = 1

MergeNext == ApplyWrites \/ Abort

MergeSpec == MergeInit /\ [][MergeNext]_vars

\* ------------------------------------------------------- the diamond's runs
\* invoke({risk level}, config) on the diamond, up to its first step.
run_diamond(t, level) ==
    /\ phase = "idle"
    /\ nreq < MaxRequests
    /\ ckpt' = [ckpt EXCEPT ![t] =
                   InputCheckpoint("diamond", ckpt[t],
                                   [input_email |-> level, quote_id |-> t])]
    /\ StartRequest([kind |-> "run", thread |-> t, graph |-> "diamond",
                     first |-> FALSE, fresh |-> ~ckpt[t].exists,
                     frontier |-> ckpt[t].next])

DiamondNext ==
    \/ \E t \in Threads, level \in RiskLevels : run_diamond(t, level)
    \/ LaunchBatch
    \/ \E n \in pending : NodeReturn(n)
    \/ ApplyWrites
    \/ Finish

DiamondSpec == Init /\ [][DiamondNext]_vars

\* ------------------------------------------------------- one node's call
\* A node function called on its own: on the states a thread has after the
\* first k nodes of the pipeline returned for an email, with is_approved
\* unset, True or False.
Pipeline == <<"security", "extract", "industry", "rates", "risk", "calculate", "quote">>

\* The values after the nodes of seq returned one after the other; a node
\* that raises writes nothing.
RECURSIVE RunNodes(_, _)
RunNodes(values, seq) ==
    IF seq = <<>> THEN values
    ELSE LET r == NodeFn("underwriting", Head(seq), values)
         IN  RunNodes(IF r.ok THEN ApplyPatch(values, r.out) ELSE values, Tail(seq))

ThreadStates ==
    LET plain == {RunNodes(ApplyPatch(InitialValues, [input_email |-> e, quote_id |-> "t1"]),
                           SubSeq(Pipeline, 1, k)) :
                     e \in Emails, k \in 0..Len(Pipeline)}
    IN  plain \cup {ApplyPatch(v, [is_approved |-> b]) : v \in plain, b \in BOOLEAN}

NodeInit ==
    \E n \in GraphNodes("underwriting"), state \in ThreadStates :
        /\ ckpt = [t \in Threads |->
                     IF t = "t1"
                     THEN [exists |-> TRUE, values |-> state, next |-> {n},
                           last |-> {START}]
                     ELSE NoCheckpoint]
        /\ req = [NoRequest EXCEPT !.kind = "call", !.thread = "t1",
                                   !.graph = "underwriting"]
        /\ phase = "batch"
        /\ view = [m \in {n} |-> state]
        /\ pending = {n}
        /\ writes = <<>>
        /\ raised = <<>>
        /\ ran = <<{n}>>
        /\ merged = {}
        /\ resp = NoResponse
        /\ nreq = 1

NodeNext == \E n \in pending : NodeReturn(n)

NodeSpec == NodeInit /\ [][NodeNext]_vars

\* ------------------------------------------------------------------ compile
\* What build_graph hands to compile: the registered nodes, the add_edge
\* pairs, the routing table of each add_conditional_edges and
\* interrupt_before.
Declaration(g) ==
    [nodes      |-> GraphNodes(g),
     edges      |-> GraphEdges(g),
     tables     |-> [b \in BranchNodes(g) |-> RoutingTable(g, b)],
     interrupts |-> InterruptBefore(g)]

\* Declarations over the nodes a, b, c, some with an edge to or from a node
\* that is not registered, without an edge from START, or with the cycle
\* a -> b -> a.
CandidateEdges ==
    {<<START, "a">>, <<"a", "b">>, <<"b", "a">>, <<"b", END>>,
     <<"a", "ghost">>, <<"ghost", "b">>}

Declarations ==
    {Declaration(g) : g \in {"underwriting", "diamond", "unmapped"}}
    \cup [nodes : {{"a", "b"}, {"a", "b", "c"}},
          edges : SUBSET CandidateEdges,
          tables : {EmptyDict},
          interrupts : {{}, {"a"}, {"ghost"}}]

\* Every pair <<m, n>> such that m triggers n: plain edges and the entries
\* of routing tables.
AllEdges(d) ==
    d.edges
    \cup UNION {{<<b, d.tables[b][l]>> : l \in DOMAIN d.tables[b]} : b \in DOMAIN d.tables}

\* The nodes reached from the set seen along the edges.
RECURSIVE ReachableFrom(_, _)
ReachableFrom(d, seen) ==
    LET more == {e[2] : e \in {e \in AllEdges(d) : e[1] \in seen}} \ seen
    IN  IF more = {} THEN seen ELSE ReachableFrom(d, seen \cup more)

Acyclic(d) ==
    \A n \in d.nodes :
        n \notin ReachableFrom(d, {e[2] : e \in {e \in AllEdges(d) : e[1] = n}})

\* compile's validation: the sources are registered nodes or START, START
\* has an edge, the targets are registered nodes or END, the nodes of
\* interrupt_before are registered.
UnknownSources(d) == {e[1] : e \in AllEdges(d)} \ (d.nodes \cup {START})

\* Mutant: the targets of the edges are not validated.
UnknownTargets_Unchecked(d) == {}

UnknownTargets(d) == {e[2] : e \in AllEdges(d)} \ (d.nodes \cup {END})

NoEntryPoint(d) == START \notin {e[1] : e \in AllEdges(d)}

UnknownInterrupts(d) == d.interrupts \ d.nodes

Invalid(d) ==
    \/ UnknownSources(d) # {}
    \/ NoEntryPoint(d)
    \/ UnknownTargets(d) # {}
    \/ UnknownInterrupts(d) # {}

\* The registered nodes no edge leads to: rejected by some versions of the
\* library only.
Orphans(d) == d.nodes \ {e[2] : e \in AllEdges(d)}

CompileInit ==
    \E d \in Declarations :
        /\ ckpt = [t \in Threads |-> NoCheckpoint]
        /\ req = [NoRequest EXCEPT !.kind = "compile", !.graph = d]
        /\ phase = "declared"
        /\ view = EmptyDict
        /\ pending = {}
        /\ writes = <<>>
        /\ raised = <<>>
        /\ ran = <<>>
        /\ merged = {}
        /\ resp = NoResponse
        /\ nreq = 0

\* workflow.compile(checkpointer=..., interrupt_before=...)
compile ==
    /\ phase = "declared"
    /\ \E strict \in BOOLEAN :
          resp' = IF Invalid(req.graph) \/ (strict /\ Orphans(req.graph) # {})
                  THEN ErrorResponse("", "ValueError")
                  ELSE [NoResponse EXCEPT !.status = "COMPILED"]
    /\ phase' = "compiled"
    /\ UNCHANGED <<ckpt, req, view, pending, writes, raised, ran, merged, nreq>>

CompileNext == compile

CompileSpec == CompileInit /\ [][CompileNext]_vars

\* ------------------------------------------------------ routing, both graphs
\* invoke({risk level}, config) on one of the diamonds, up to its first step.
run_graph(g, t, level) ==
    /\ phase = "idle"
    /\ nreq < MaxRequests
    /\ ckpt' = [ckpt EXCEPT ![t] =
                   InputCheckpoint(g, ckpt[t], [input_email |-> level, quote_id |-> t])]
    /\ StartRequest([kind |-> "run", thread |-> t, graph |-> g,
                     first |-> FALSE, fresh |-> ~ckpt[t].exists,
                     frontier |-> ckpt[t].next])

\* The web application's graph serves thread t1, the diamonds thread t2.
RoutingNext ==
    \/ \E e \in Emails : process_quote("t1", e)
    \/ approve_quote("t1")
    \/ \E g \in DiamondGraphs, level \in RiskLevels : run_graph(g, "t2", level)
    \/ LaunchBatch
    \/ \E n \in pending : NodeReturn(n)
    \/ ApplyWrites
    \/ Abort
    \/ Interrupt
    \/ Finish

RoutingSpec == Init /\ [][RoutingNext]_vars

\* ------------------------------------------------------- pause and resume
\* update_state(config, {is_approved: True}) and invoke(None, config) on a
\* thread of graph g, up to the first step.
resume_graph(g, t) ==
    /\ phase = "idle"
    /\ nreq < MaxRequests
    /\ ckpt[t].exists
    /\ \E as_node \in ckpt[t].last :
          ckpt' = [ckpt EXCEPT ![t] =
                      UpdatedCheckpoint(g, ckpt[t], as_node, [is_approved |-> TRUE])]
    /\ StartRequest([kind |-> "resume", thread |-> t, graph |-> g,
                     first |-> TRUE, fresh |-> FALSE, frontier |-> ckpt[t].next])

\* The web application's graph serves thread t1, the chain thread t2.
PauseNext ==
    \/ \E e \in Emails : process_quote("t1", e)
    \/ approve_quote("t1")
    \/ run_graph("twopause", "t2", "LOW")
    \/ resume_graph("twopause", "t2")
    \/ LaunchBatch
    \/ \E n \in pending : NodeReturn(n)
    \/ ApplyWrites
    \/ Abort
    \/ Interrupt
    \/ Finish

PauseSpec == Init /\ [][PauseNext]_vars

\* The fork, run and resumed on either thread.
ForkNext ==
    \/ \E t \in Threads : run_graph("fork", t, "LOW")
    \/ \E t \in Threads : resume_graph("fork", t)
    \/ LaunchBatch
    \/ \E n \in pending : NodeReturn(n)
    \/ ApplyWrites
    \/ Interrupt
    \/ Finish

ForkSpec == Init /\ [][ForkNext]_vars


\* ------------------------------------------------------------- properties
\* The nodes invoked since the request began.
Ran == UNION {ran[i] : i \in 1..Len(ran)}

\* The request has been answered.
Done == phase = "idle" /\ resp.status # "NONE"

\* How the run of the answered request ended.
Failed == Done /\ resp.status = "ERROR"
Completed == Done /\ resp.status # "ERROR" /\ resp.next = {}
Paused == Done /\ resp.status # "ERROR" /\ resp.next # {}

\* The thread's state carries an approval.
Approved(values) == Get(values, "is_approved", FALSE) = TRUE

\* C1 (as stated): a run on a thread without prior approval never returns
\* Completed.
C1_UnapprovedNeverCompleted ==
    (Completed /\ req.kind = "process") => Approved(resp.values)

\* C1 (amended): a run on a thread without prior approval whose routing
\* selects the pause_before node (route_after_calculation returns
\* manual_review) ends Paused at manual_review with manual_review and quote
\* not invoked, and never Completed; an unapproved run is Completed only
\* when the routing did not select manual_review.
C1_PausedWhenRoutedToReview ==
    /\ (req.kind = "process") => "manual_review" \notin Ran
    /\ (Done /\ req.kind = "process" /\ ~Failed /\ ~Approved(resp.values))
        => IF "calculate" \in Ran
              /\ route_after_calculation(resp.values) = "manual_review"
           THEN Paused /\ resp.next = {"manual_review"} /\ "quote" \notin Ran
           ELSE Completed

C1_Witness ==
    /\ Paused /\ req.kind = "process" /\ ~Approved(resp.values)
    /\ resp.next = {"manual_review"} /\ "calculate" \in Ran


\* The keys a returned dict writes to the state.
Written(patch) == DOMAIN patch \cap StateKeys

\* values holds what patch wrote: the value itself, or for a reducer key
\* each entry of it.
Holds(values, patch) ==
    \A k \in Written(patch) :
        /\ k \in DOMAIN values
        /\ IF k \in MergeKeys
           THEN \A x \in DOMAIN patch[k] :
                    x \in DOMAIN values[k] /\ values[k][x] = patch[k][x]
           ELSE IF k \in AppendKeys
           THEN SeqToSet(patch[k]) \subseteq SeqToSet(values[k])
           ELSE values[k] = patch[k]

\* C2 (as stated): resuming a thread paused before a pause_before node with
\* the approval patch executes the paused node, the run reaches Completed,
\* and the final state holds the state saved at the pause, the approval and
\* every patch produced after the pause.
C2_ResumeExecutesPausedNode ==
    (Done /\ req.kind = "approve" /\ req.frontier = {"manual_review"})
        => /\ "manual_review" \in Ran
           /\ Completed
           /\ Approved(resp.values)
           /\ \A i \in 1..Len(writes) : Holds(resp.values, writes[i][2])

C4_DiamondJoinsThenRoutes ==
    (req.graph = "diamond" /\ req.fresh)
        => /\ \A i \in 1..Len(ran) :
                  /\ ran[i] \cap {"B", "C"} # {} => ran[i] = {"B", "C"}
                  /\ "D" \in ran[i] => (ran[i] = {"D"} /\ {"B", "C"} \subseteq merged)
           /\ "D" \in DOMAIN view
                => view["D"]["cost_tracking"] = Dict(Entry("B", 1), Entry("C", 2))
           /\ Done
                => /\ Completed
                   /\ Holds(resp.values, DiamondPatch("B", resp.values))
                   /\ Holds(resp.values, DiamondPatch("C", resp.values))
                   /\ resp.values["calculation"].observed
                          = Dict(Entry("B", 1), Entry("C", 2))
                   /\ IF resp.values["risk_assessment"].level = "HIGH"
                      THEN /\ ran = <<{"A"}, {"B", "C"}, {"D"}, {"E"}>>
                           /\ resp.values["quote_letter"] = <<"E">>
                      ELSE /\ ran = <<{"A"}, {"B", "C"}, {"D"}>>
                           /\ "quote_letter" \notin DOMAIN resp.values

C4_Witness ==
    /\ req.graph = "diamond" /\ req.fresh /\ Completed
    /\ resp.values["risk_assessment"].level = "HIGH"
    /\ "E" \in Ran /\ resp.values["quote_letter"] = <<"E">>
    /\ DOMAIN resp.values["cost_tracking"] = {"B", "C"}

\* C11: each time a step with a node that has a conditional edge is applied
\* (and when update_state writes as such a node), the label its routing
\* function gives on the state after the step is in the routing table, the
\* target mapped to it is the one target of the table that is triggered
\* (END triggers none), and another target of the table is next only through
\* a plain edge of a node of the step; a label the table lacks raises in
\* the node's step, which is answered as an error with no target selected
\* and nothing of the step applied.
C11_OneTargetFromMergedState ==
    /\ (phase = "loop" /\ req.kind # "none")
          => \A n \in ckpt[req.thread].last \cap BranchNodes(req.graph) :
                 LET post == ckpt[req.thread].values
                     next == ckpt[req.thread].next
                     table == RoutingTable(req.graph, n)
                     label == Route(req.graph, n, post)
                 IN  /\ label \in DOMAIN table
                     /\ table[label] # END => table[label] \in next
                     /\ \A l \in DOMAIN table :
                            (table[l] \notin {table[label], END} /\ table[l] \in next)
                                => \E m \in ckpt[req.thread].last :
                                       <<m, table[l]>> \in GraphEdges(req.graph)
    /\ (req.graph = "unmapped" /\ "D" \in Ran
        /\ ckpt[req.thread].values["risk_assessment"].level = "HIGH")
          => /\ "E" \notin Ran
             /\ "D" \notin merged
             /\ ckpt[req.thread].next = {"D"}
             /\ "calculation" \in DOMAIN ckpt[req.thread].values
                    => ckpt[req.thread].values["calculation"] = view["D"]["calculation"]
             /\ Done => (Failed /\ resp.error = "E")
             /\ (phase = "batch" /\ pending = {}) => (~ENABLED ApplyWrites /\ ENABLED Abort)

C11_Witness ==
    /\ Failed /\ req.graph = "unmapped" /\ raised = <<(<<"D", "E">>)>>
    /\ ckpt[req.thread].next = {"D"}

\* C5 (as stated): when security_flags is non-empty at the time risk
\* completes, neither calculate nor quote nor manual_review is executed in
\* that run.
C5_FlaggedRunStopsAfterRisk ==
    (req.kind = "process" /\ "risk" \in merged
     /\ Get(ckpt[req.thread].values, "security_flags", <<>>) # <<>>)
        => Ran \cap {"calculate", "quote", "manual_review"} = {}

HighRisk(values) ==
    "risk_assessment" \in DOMAIN values /\ values["risk_assessment"].level = "HIGH"

\* C6: a run on a fresh thread whose risk level is HIGH and in which no node
\* fails answers WAITING_APPROVAL with the thread suspended before
\* manual_review and quote not executed; approve_quote on a thread
\* suspended before manual_review executes quote and answers a non-empty
\* quote letter.
C6_HighRiskWaitsThenApproveQuotes ==
    /\ (Done /\ req.kind = "process" /\ req.fresh /\ ~Failed /\ HighRisk(resp.values))
        => /\ resp.status = "WAITING_APPROVAL"
           /\ ckpt[req.thread].next = {"manual_review"}
           /\ "quote" \notin Ran
           /\ resp.quote_letter = EmptyString
    /\ (Done /\ req.kind = "approve" /\ req.frontier = {"manual_review"})
        => /\ resp.status = "APPROVED"
           /\ "quote" \in Ran
           /\ resp.quote_letter # EmptyString

C6_Witness ==
    /\ Done /\ req.kind = "approve" /\ req.frontier = {"manual_review"}
    /\ "quote" \in Ran /\ resp.quote_letter # EmptyString
    /\ HighRisk(resp.values)

\* The orders in which the writes ws can be applied.
Orders(ws) ==
    {[i \in 1..Len(ws) |-> ws[f[i]]] :
        f \in {f \in [1..Len(ws) -> 1..Len(ws)] :
                  \A a, b \in 1..Len(ws) : a # b => f[a] # f[b]}}

Clash ==
    \E i, j \in 1..Len(writes) :
        /\ i # j
        /\ (DOMAIN writes[i][2] \cap DOMAIN writes[j][2] \cap StateKeys)
               \ (MergeKeys \cup AppendKeys) # {}

\* C8: when two dicts of one step write the same plain (overwrite) key the
\* step cannot be applied, it can only raise; the request is answered with
\* the error, the thread's values stay as they were before the step, and no
\* applied step ever had such a pair.
C8_OverwriteClashRaises ==
    (req.kind = "step")
        => /\ (phase = "batch" /\ Clash) => (~ENABLED ApplyWrites /\ ENABLED Abort)
           /\ (phase = "loop") => ~Clash
           /\ (phase = "idle" /\ Clash)
                => /\ resp.status = "ERROR"
                   /\ resp.values = EmptyDict
                   /\ ckpt[req.thread].values = writes[1][3]
                   /\ merged = {}

C8_Witness ==
    /\ req.kind = "step" /\ phase = "idle" /\ Clash
    /\ resp.status = "ERROR"
    /\ \E i \in 1..Len(writes) : "rates" \in DOMAIN writes[i][2]

\* The nodes with an edge or a routing-table entry into n.
Predecessors(g, n) ==
    {e[1] : e \in {e \in GraphEdges(g) : e[2] = n}}
    \cup {b \in BranchNodes(g) :
             \E l \in DOMAIN RoutingTable(g, b) : RoutingTable(g, b)[l] = n}

\* C9: while a batch runs, every node of the earlier batches of the run has
\* been merged, every predecessor of a running node that was invoked in the
\* run has been merged, and calculate runs only with industry, rates and
\* risk merged and their patches in the state it was launched with.
C9_BatchStartsAfterMerge ==
    (phase = "batch")
        => /\ \A i \in 1..(Len(ran) - 1) : ran[i] \subseteq merged
           /\ \A n \in ran[Len(ran)] :
                  Predecessors(req.graph, n) \cap Ran \subseteq merged
           /\ ("calculate" \in ran[Len(ran)])
                 => /\ {"industry", "rates", "risk"} \subseteq merged
                    /\ {"industry_classification", "rates", "risk_assessment"}
                           \subseteq DOMAIN view["calculate"]
                    /\ {"industry", "rates", "risk"}
                           \subseteq DOMAIN view["calculate"]["cost_tracking"]

C9_Witness ==
    phase = "batch" /\ "calculate" \in pending /\ Len(ran) = 4

\* C10: every node of a batch reads the state saved before the batch, which
\* holds no patch of a node of the same batch, whatever the order in which
\* the nodes return; on a fresh thread industry, rates and risk each read
\* extract's output and none of each other's.
C10_BatchReadsPreBatchState ==
    (phase = "batch")
        => /\ \A i \in 1..Len(writes) : writes[i][3] = ckpt[req.thread].values
           /\ (req.fresh /\ ran[Len(ran)] = {"industry", "rates", "risk"})
                 => \A i \in 1..Len(writes) :
                        /\ DOMAIN writes[i][3]
                               \cap {"industry_classification", "rates",
                                     "risk_assessment", "is_referral"} = {}
                        /\ DOMAIN writes[i][3]["cost_tracking"]
                               \subseteq {"security", "extraction"}
                        /\ DOMAIN writes[i][3] \cap {"extracted_data", "error"} # {}

C10_Witness ==
    /\ phase = "batch" /\ req.fresh /\ ran[Len(ran)] = {"industry", "rates", "risk"}
    /\ Len(writes) = 2 /\ writes[1][1] = "risk" /\ writes[2][1] = "industry"

C14_CheckpointAtPauseAndEnd ==
    /\ Paused
         => /\ ckpt[req.thread].exists
            /\ ckpt[req.thread].values = resp.values
            /\ ckpt[req.thread].next = {"manual_review"}
            /\ resp.next = {"manual_review"}
            /\ "manual_review" \notin Ran
            /\ Ran \subseteq merged
    /\ Completed
         => /\ ckpt[req.thread].exists
            /\ ckpt[req.thread].values = resp.values
            /\ ckpt[req.thread].next = {}
            /\ Ran \subseteq merged
    /\ (Done /\ ~Failed /\ req.kind = "process" /\ req.fresh)
         => (resp.status = "WAITING_APPROVAL" <=> Paused)

C14_Witness ==
    /\ Paused /\ req.kind = "process"
    /\ ckpt[req.thread].values = resp.values
    /\ ckpt[req.thread].next = {"manual_review"}
    /\ Ran = {"security", "extract", "industry", "rates", "risk", "calculate"}
    /\ Ran \subseteq merged

C17_StaleResumeRejected ==
    (req.kind = "approve" /\ ~req.fresh /\ req.frontier = {})
        => /\ Ran = {}
           /\ Done => Failed

C19_ApproveUnknownThreadNotFound ==
    (req.kind = "approve" /\ req.fresh)
        => /\ Ran = {}
           /\ ~ckpt[req.thread].exists
           /\ Done => Failed

\* C20 (as stated): when the extraction chain fails inside extract, the run
\* ends as failed, the answer names extract, and none of industry, rates and
\* risk is invoked afterwards.
C20_ExtractFailureEndsRun ==
    (req.kind = "process" /\ "extract" \in Ran
     /\ ~Mail[ckpt[req.thread].values["input_email"]].ok)
        => /\ Ran \cap {"industry", "rates", "risk"} = {}
           /\ Done => (Failed /\ resp.error = "extract")

\* C21 (as stated): in a process_quote run whose risk level is HIGH, quote
\* is not executed (it runs only in an approve_quote request made after
\* that run paused), also when the thread was approved in an earlier run.
C21_HighRiskQuoteNeedsNewApproval ==
    (req.kind = "process" /\ "calculate" \in merged
     /\ HighRisk(ckpt[req.thread].values))
        => "quote" \notin Ran

\* C22 (as stated): a node launched on a thread has not been executed on
\* that thread before (its telemetry entry is not yet in the values it is
\* given).
C22_OncePerThread ==
    (req.graph = "underwriting" /\ phase = "batch")
        => \A n \in ran[Len(ran)] \cap DOMAIN TelemetryKey :
               TelemetryKey[n] \notin DOMAIN view[n]["cost_tracking"]

\* C22 (amended): within one request no node is launched twice, although
\* calculate is triggered by industry, rates and risk and quote by calculate
\* and manual_review; an approval that finds the thread stopped before
\* manual_review launches none of the nodes that ran before the pause, only
\* quote; and after a node raised no node is launched in that request.  A
\* later process_quote on the same thread runs the nodes again.
C22_OncePerRun ==
    /\ \A i, j \in 1..Len(ran) : i # j => ran[i] \cap ran[j] = {}
    /\ (req.kind = "approve" /\ req.frontier = {"manual_review"})
          => Ran \subseteq {"quote"}
    /\ raised # <<>> => (raised[1][1] \in ran[Len(ran)] /\ phase \in {"batch", "idle"})
    /\ (Done /\ raised # <<>>) => Failed

C22_Witness ==
    /\ Done /\ req.kind = "process" /\ ~req.fresh /\ ~Failed
    /\ ran = <<{"security"}, {"extract"}, {"industry", "rates", "risk"},
               {"calculate"}, {"quote"}>>
    /\ nreq = 2

\* C23 (as stated): the dict a node of the underwriting graph returns
\* writes only keys declared in AgentState, the dict of manual_review
\* included.
C23_PatchesWriteDeclaredKeys ==
    (req.kind = "call" /\ writes # <<>>)
        => DOMAIN writes[1][2] \subseteq StateKeys

\* C24: once the step {industry, rates, risk} is applied, cost_tracking and
\* execution_time hold the entry of each of the three nodes, as written,
\* and every entry they held before the step (security, extraction)
\* unchanged, in whichever order the three nodes returned.
C24_TelemetryOfBatchKept ==
    (req.graph = "underwriting" /\ phase = "loop"
     /\ ckpt[req.thread].last = {"industry", "rates", "risk"})
        => \A k \in MergeKeys :
               LET pre == view["risk"][k]
                   post == ckpt[req.thread].values[k]
               IN  /\ {"security", "extraction", "industry", "rates", "risk"}
                          \subseteq DOMAIN post
                   /\ \A i \in 1..Len(writes) : \A x \in DOMAIN writes[i][2][k] :
                          post[x] = writes[i][2][k][x]
                   /\ \A x \in DOMAIN pre \ {"industry", "rates", "risk"} :
                          post[x] = pre[x]
                   /\ {"security", "extraction"} \subseteq DOMAIN pre

C24_Witness ==
    /\ req.graph = "underwriting" /\ phase = "loop"
    /\ ckpt[req.thread].last = {"industry", "rates", "risk"}
    /\ Len(writes) = 3 /\ writes[1][1] = "risk" /\ writes[3][1] = "industry"
    /\ DOMAIN ckpt[req.thread].values["cost_tracking"]
           = {"security", "extraction", "industry", "rates", "risk"}

\* C25: a resumed run is not stopped again before the node it was paused
\* before, and is stopped before another node of interrupt_before it
\* reaches later.  In the chain the run pauses before M1; the first resume
\* runs M1 and B and pauses before M2; the second runs M2 and ends.  In
\* the underwriting graph an approval that finds the thread stopped before
\* manual_review is not stopped again.
C25_PauseClearedForResumedNodeOnly ==
    /\ (req.graph = "twopause" /\ Done)
          => /\ ~Failed
             /\ req.kind = "run"
                  => (Paused /\ resp.next = {"M1"} /\ ran = <<{"A"}>>)
             /\ (req.kind = "resume" /\ req.frontier = {"M1"})
                  => (Paused /\ resp.next = {"M2"} /\ ran = <<{"M1"}, {"B"}>>)
             /\ (req.kind = "resume" /\ req.frontier = {"M2"})
                  => (Completed /\ ran = <<{"M2"}>>)
    /\ (req.kind = "approve" /\ req.frontier = {"manual_review"} /\ Done /\ ~Failed)
          => (Completed /\ Ran # {})

C25_Witness ==
    /\ req.graph = "twopause" /\ req.kind = "resume" /\ req.frontier = {"M2"}
    /\ Completed /\ ran = <<{"M2"}>> /\ nreq = 3
    /\ DOMAIN resp.values["cost_tracking"] = {"A", "M1", "B", "M2"}

\* C26: every request that is taken up, a run or an approval, is answered:
\* it ends as completed, paused or failed, exactly one of the three, and
\* the engine never stays in a request with nothing left to do.
C26_EveryRequestAnswered ==
    /\ [](Done => \/ (Completed /\ ~Paused /\ ~Failed)
                  \/ (Paused /\ ~Completed /\ ~Failed)
                  \/ (Failed /\ ~Completed /\ ~Paused))
    /\ [](phase # "idle" => ENABLED Serve)
    /\ (phase # "idle") ~> Done

C26_Witness ==
    /\ Done /\ nreq = 3 /\ req.kind = "approve" /\ Completed
    /\ ran = <<{"quote"}>>

C28_WaitingIffPausedAtReview ==
    (Done /\ ~Failed /\ req.kind = "process")
        => (resp.status = "WAITING_APPROVAL"
              <=> "manual_review" \in ckpt[req.thread].next)

C30_OtherThreadsUntouched ==
    [][\A t \in Threads \ {req'.thread} :
          /\ ckpt'[t] = ckpt[t]
          /\ (req'.kind = "approve" /\ ckpt[t].next = {"manual_review"})
                => /\ ckpt'[t].next = {"manual_review"}
                   /\ Approved(ckpt'[t].values) = Approved(ckpt[t].values)
      ]_vars

C30_Witness ==
    /\ Completed /\ req.kind = "approve" /\ req.thread = "t1"
    /\ req.frontier = {"manual_review"} /\ "quote" \in Ran
    /\ ckpt["t2"].next = {"manual_review"}
    /\ ~Approved(ckpt["t2"].values)
    /\ "quote_letter" \notin DOMAIN ckpt["t2"].values
          \/ ckpt["t2"].values["quote_letter"] = EmptyString

====
